---- MODULE Spec2Model ----
(***************************************************************************)
(* Model of embedding-service/server.py: a Flask application with three    *)
(* routes (/health, /embed, /embed/batch) around one process-wide          *)
(* SentenceTransformer model.  Each handler thread owns its locals; the    *)
(* only point where a handler waits is the synchronous call model.encode.  *)
(***************************************************************************)
EXTENDS Integers, Sequences, FiniteSets, TLC

VARIABLES model, pc, req, args, calls, outcome, resp

vars == <<model, pc, req, args, calls, outcome, resp>>

(************************* bounds and constants ****************************)

\* Number of requests the server has in flight at the same time.
MaxInFlight == 2

\* The "dimensions" literal of every 200 body.
Dimensions == 1024

\* Default of data.get('batch_size', 32).
DefaultBatchSize == 32

Slots == 1..MaxInFlight

(***************************** Python values *******************************)
\* A decoded JSON value: k is the Python type, s the text of a str, n the
\* value of an int/bool, l the items of a list.  "absent" marks a key that
\* the JSON object does not have.

Val(k, s, n, l) == [k |-> k, s |-> s, n |-> n, l |-> l]

None == Val("none", "", 0, <<>>)
Absent == Val("absent", "", 0, <<>>)
Str(s) == Val("str", s, 0, <<>>)
IntV(n) == Val("int", "", n, <<>>)
True == Val("bool", "", 1, <<>>)
False == Val("bool", "", 0, <<>>)
List(l) == Val("list", "", 0, l)

\* bool(v): the truth value Python gives a value in `not v` / `if v`.
Truthy(v) ==
    CASE v.k = "none" -> FALSE
      [] v.k = "absent" -> FALSE
      [] v.k = "str" -> v.s # ""
      [] v.k = "int" -> v.n # 0
      [] v.k = "bool" -> v.n # 0
      [] v.k = "list" -> Len(v.l) > 0
      [] OTHER -> FALSE

\* isinstance(v, str), isinstance(v, list)
IsStr(v) == v.k = "str"
IsList(v) == v.k = "list"

\* dict.get(key): None when the key is absent.
Get(data, key) == IF data[key].k = "absent" THEN None ELSE data[key]

\* dict.get(key, default): the default only when the key is absent.
GetDefault(data, key, default) ==
    IF data[key].k = "absent" THEN default ELSE data[key]

(************************** requests and responses *************************)

\* The body of a request as request.json sees it.  kind "nojson": no body,
\* a body that is not JSON, or a non-JSON content type (request.json raises);
\* "nonobject": JSON that is not an object, so that it has no .get;
\* "object": a JSON object with the keys that are not Absent.
Body(kind, text, normalize, texts, batch_size) ==
    [kind |-> kind, text |-> text, normalize |-> normalize,
     texts |-> texts, batch_size |-> batch_size]

NoBody == Body("nojson", Absent, Absent, Absent, Absent)
NonObjectBody == Body("nonobject", Absent, Absent, Absent, Absent)

Request(ep, body) == [ep |-> ep, body |-> body]
NoRequest == Request("none", NoBody)

\* Values a client sends as "text" to /embed.
TextValues ==
    { Absent, Str(""), List(<<>>), Str("a"), List(<<Str("a"), Str("b")>>),
      IntV(5) }

\* Values a client sends as "normalize".
NormalizeValues == { Absent, True, False }

\* Values a client sends as "texts" to /embed/batch.
TextsValues ==
    { Absent, List(<<>>), Str("a"), List(<<Str("a"), Str("b")>>),
      List(<<IntV(5)>>) }

\* Values a client sends as "batch_size".
BatchSizeValues == { Absent, IntV(1), IntV(0) }

EmbedRequests ==
    { Request("embed", Body("object", t, n, Absent, Absent)) :
        t \in TextValues, n \in NormalizeValues }
    \cup { Request("embed", NoBody), Request("embed", NonObjectBody) }

\* /embed/batch reads no "normalize"; a client may send it all the same.
BatchRequests ==
    { Request("batch", Body("object", Absent, Absent, t, b)) :
        t \in TextsValues, b \in BatchSizeValues }
    \cup { Request("batch", Body("object", Absent, False, t, Absent)) :
        t \in TextsValues }
    \cup { Request("batch", NoBody), Request("batch", NonObjectBody) }

Requests == { Request("health", NoBody) } \cup EmbedRequests \cup BatchRequests

\* One row of the array encode returns: the vector of one text, of unit norm
\* when normalize_embeddings was true.
Vec(s, unit) == [text |-> s, unit |-> unit]

\* jsonify(...) with its status: keys are the keys of the JSON body.
Response(status, keys, error, embeddings, dimensions, count, st, name) ==
    [status |-> status, keys |-> keys, error |-> error,
     embeddings |-> embeddings, dimensions |-> dimensions, count |-> count,
     st |-> st, model |-> name]

\* Faulty variant: an error body that still carries an "embeddings" key.
ErrorResponsePartial(code, msg) ==
    Response(code, {"error", "embeddings"}, msg, <<>>, 0, 0, "", "")

\* jsonify({"error": msg}), code
ErrorResponse(code, msg) ==
    Response(code, {"error"}, msg, <<>>, 0, 0, "", "")

\* jsonify({"embeddings": ..., "dimensions": 1024, "count": ...})
EmbeddingResponse(embeddings, count) ==
    Response(200, {"embeddings", "dimensions", "count"}, "", embeddings,
             Dimensions, count, "", "")

\* Faulty variant: the health descriptor reports the model as not ready.
health_response_loading ==
    Response(503, {"status", "model", "dimensions"}, "", <<>>, Dimensions, 0,
             "loading", "BGE-large-en-v1.5")

\* jsonify({"status": "healthy", "model": ..., "dimensions": 1024})
health_response ==
    Response(200, {"status", "model", "dimensions"}, "", <<>>, Dimensions, 0,
             "healthy", "BGE-large-en-v1.5")

MsgMissingText == "Missing 'text' field"
MsgInvalidTexts == "Missing or invalid 'texts' field"
\* str(e) of what request.json raises, of the AttributeError of .get, and of
\* what encode raises.
MsgNoJson == "request.json raised"
MsgNoGet == "object has no attribute 'get'"
MsgEncode == "encode raised"

(******************************* model.encode ******************************)

\* The arguments of one call of model.encode; batch_size is Absent when the
\* keyword is not passed.
EncodeArgs(texts, normalize, batch_size) ==
    [texts |-> texts, normalize |-> normalize, batch_size |-> batch_size]
NoArgs == EncodeArgs(None, None, Absent)

\* encode's input contract: a non-empty list of str, a positive int batch_size.
WellFormedTexts(t) ==
    IsList(t) /\ Len(t.l) > 0 /\ \A i \in 1..Len(t.l) : IsStr(t.l[i])
WellFormedBatchSize(b) == b.k = "absent" \/ (b.k = "int" /\ b.n > 0)
WellFormedArgs(a) == WellFormedTexts(a.texts) /\ WellFormedBatchSize(a.batch_size)

\* An ndarray of shape (shape0, Dimensions): rows are indexed from 0.
Array(n, row) == [shape0 |-> n, rows |-> row]
EmptyArray == Array(0, <<>>)

\* model.encode(texts, batch_size=..., normalize_embeddings=...): raises on an
\* input outside its contract or on an internal failure (fault); otherwise
\* one row per text, in input order, whatever the batch size.
encode(a, fault) ==
    IF fault \/ ~WellFormedArgs(a)
    THEN [raised |-> TRUE, array |-> EmptyArray]
    ELSE [raised |-> FALSE,
          array |-> Array(Len(a.texts.l),
                          [i \in 0..(Len(a.texts.l) - 1) |->
                              Vec(a.texts.l[i + 1].s, Truthy(a.normalize))])]

\* ndarray.tolist(): the rows as a list.
tolist(arr) == [i \in 1..arr.shape0 |-> arr.rows[i - 1]]

\* Faulty variant: ndarray.size, the number of scalars, instead of len.
len_array_size(arr) == arr.shape0 * Dimensions

\* len(ndarray): the size of the first axis.
len_array(arr) == arr.shape0

(******************************** handlers *********************************)

\* What the first part of a handler ends with: a response, or a call of
\* model.encode with the given arguments.
Respond(response) == [next |-> "respond", resp |-> response, args |-> NoArgs]
Call(a) == [next |-> "encode", resp |-> ErrorResponse(0, ""), args |-> a]

\* Faulty variant: `if text is None:`, which lets "" and [] through.
embed_invalid_none(text) == text.k = "none"

\* `if not text:`
embed_invalid(text) == ~Truthy(text)

\* `if isinstance(text, str): text = [text]`
embed_texts(text) == IF IsStr(text) THEN List(<<text>>) ELSE text

\* Faulty variant: normalize_embeddings=True whatever the request says.
embed_args_normalized(text, normalize) ==
    EncodeArgs(embed_texts(text), True, Absent)

\* model.encode(text, normalize_embeddings=normalize, show_progress_bar=False)
embed_args(text, normalize) == EncodeArgs(embed_texts(text), normalize, Absent)

\* embed(), from `data = request.json` to the call of model.encode.
embed_begin(body) ==
    IF body.kind = "nojson" THEN Respond(ErrorResponse(500, MsgNoJson))
    ELSE IF body.kind = "nonobject" THEN Respond(ErrorResponse(500, MsgNoGet))
    ELSE LET text == Get(body, "text")
             normalize == GetDefault(body, "normalize", True)
         IN  IF embed_invalid(text)
             THEN Respond(ErrorResponse(400, MsgMissingText))
             ELSE Call(embed_args(text, normalize))

\* embed(), from the return of model.encode on.
embed_end(result) ==
    IF result.raised THEN ErrorResponse(500, MsgEncode)
    ELSE LET embeddings_list == tolist(result.array)
         IN  EmbeddingResponse(embeddings_list, Len(embeddings_list))

\* Faulty variant: `if not texts:`, without the isinstance test.
embed_batch_invalid_falsy(texts) == ~Truthy(texts)

\* `if not texts or not isinstance(texts, list):`
embed_batch_invalid(texts) == ~Truthy(texts) \/ ~IsList(texts)

\* Faulty variant: the handler encodes only the first batch, texts[:batch_size].
embed_batch_args_first_batch(texts, batch_size) ==
    EncodeArgs(
        IF batch_size.k = "int" /\ batch_size.n >= 0 /\ batch_size.n < Len(texts.l)
        THEN List(SubSeq(texts.l, 1, batch_size.n)) ELSE texts,
        True, batch_size)

\* model.encode(texts, batch_size=batch_size, normalize_embeddings=True, ...)
embed_batch_args(texts, batch_size) == EncodeArgs(texts, True, batch_size)

\* embed_batch(), from `data = request.json` to the call of model.encode.
embed_batch_begin(body) ==
    IF body.kind = "nojson" THEN Respond(ErrorResponse(500, MsgNoJson))
    ELSE IF body.kind = "nonobject" THEN Respond(ErrorResponse(500, MsgNoGet))
    ELSE LET texts == Get(body, "texts")
             batch_size == GetDefault(body, "batch_size", IntV(DefaultBatchSize))
         IN  IF embed_batch_invalid(texts)
             THEN Respond(ErrorResponse(400, MsgInvalidTexts))
             ELSE Call(embed_batch_args(texts, batch_size))

\* embed_batch(), from the return of model.encode on.
embed_batch_end(result) ==
    IF result.raised THEN ErrorResponse(500, MsgEncode)
    ELSE EmbeddingResponse(tolist(result.array), len_array(result.array))

(********************************* state ***********************************)

\* The SentenceTransformer loaded at import time.
ModelHandle == "BAAI/bge-large-en-v1.5"

\* Faulty variant: text/normalize/batch_size kept in module-level globals, so that
\* a handler sees what the latest caller of encode stored.
LocalsShared(r) == args[CHOOSE s \in Slots : pc[s] = "encoding"]

\* The local variables of handler thread r that its call of encode uses.
Locals(r) == args[r]

Init ==
    /\ model = ModelHandle
    /\ pc = [r \in Slots |-> "idle"]
    /\ req = [r \in Slots |-> NoRequest]
    /\ args = [r \in Slots |-> NoArgs]
    /\ calls = [r \in Slots |-> 0]
    /\ outcome = [r \in Slots |-> "none"]
    /\ resp = [r \in Slots |-> <<>>]

\* The server accepts a connection and hands it to a handler thread.
Receive(r) ==
    /\ pc[r] = "idle"
    /\ pc' = [pc EXCEPT ![r] = "received"]
    /\ UNCHANGED <<model, req, args, calls, outcome, resp>>

\* The first part of a handler on request q: it responds, or it calls
\* model.encode.
Begin(r, q, step) ==
    /\ pc[r] = "received"
    /\ req' = [req EXCEPT ![r] = q]
    /\ IF step.next = "respond"
       THEN /\ resp' = [resp EXCEPT ![r] = Append(@, step.resp)]
            /\ pc' = [pc EXCEPT ![r] = "done"]
            /\ UNCHANGED <<args, calls>>
       ELSE /\ args' = [args EXCEPT ![r] = step.args]
            /\ calls' = [calls EXCEPT ![r] = @ + 1]
            /\ pc' = [pc EXCEPT ![r] = "encoding"]
            /\ UNCHANGED resp
    /\ UNCHANGED <<model, outcome>>

\* The second part: model.encode returns or raises, and the handler responds.
End(r, result, response) ==
    /\ pc[r] = "encoding"
    /\ outcome' = [outcome EXCEPT ![r] = IF result.raised THEN "raised" ELSE "returned"]
    /\ resp' = [resp EXCEPT ![r] = Append(@, response)]
    /\ pc' = [pc EXCEPT ![r] = "done"]
    /\ UNCHANGED <<model, req, args, calls>>

health(r) ==
    /\ pc[r] = "received"
    /\ req' = [req EXCEPT ![r] = Request("health", NoBody)]
    /\ resp' = [resp EXCEPT ![r] = Append(@, health_response)]
    /\ pc' = [pc EXCEPT ![r] = "done"]
    /\ UNCHANGED <<model, args, calls, outcome>>

embed(r) ==
    \E q \in EmbedRequests : Begin(r, q, embed_begin(q.body))

embed_return(r) ==
    /\ pc[r] = "encoding"
    /\ req[r].ep = "embed"
    /\ \E fault \in BOOLEAN :
          LET result == encode(Locals(r), fault)
          IN  End(r, result, embed_end(result))

embed_batch(r) ==
    \E q \in BatchRequests : Begin(r, q, embed_batch_begin(q.body))

embed_batch_return(r) ==
    /\ pc[r] = "encoding"
    /\ req[r].ep = "batch"
    /\ \E fault \in BOOLEAN :
          LET result == encode(Locals(r), fault)
          IN  End(r, result, embed_batch_end(result))

\* The response has been sent; the thread is free for the next request.
Close(r) ==
    /\ pc[r] = "done"
    /\ pc' = [pc EXCEPT ![r] = "idle"]
    /\ req' = [req EXCEPT ![r] = NoRequest]
    /\ args' = [args EXCEPT ![r] = NoArgs]
    /\ calls' = [calls EXCEPT ![r] = 0]
    /\ outcome' = [outcome EXCEPT ![r] = "none"]
    /\ resp' = [resp EXCEPT ![r] = <<>>]
    /\ UNCHANGED model

Next ==
    \E r \in Slots :
        \/ Receive(r)
        \/ health(r)
        \/ embed(r)
        \/ embed_return(r)
        \/ embed_batch(r)
        \/ embed_batch_return(r)
        \/ Close(r)

Spec == Init /\ [][Next]_vars

\* One request for every path through embed(): request.json raises, data.get
\* raises, the 400 return, and the call of encode with one text, with two
\* texts and with an input it rejects.
EmbedPathRequests ==
    { Request("embed", NoBody), Request("embed", NonObjectBody) }
    \cup { Request("embed", Body("object", t, Absent, Absent, Absent)) :
             t \in { Absent, Str("a"), List(<<Str("a"), Str("b")>>), IntV(5) } }

\* One request for every path through embed_batch().
BatchPathRequests ==
    { Request("batch", NoBody), Request("batch", NonObjectBody),
      Request("batch", Body("object", Absent, Absent, Absent, Absent)),
      Request("batch", Body("object", Absent, Absent,
                            List(<<Str("a"), Str("b")>>), Absent)),
      Request("batch", Body("object", Absent, Absent,
                            List(<<Str("a"), Str("b")>>), IntV(0))) }

embed_path(r) ==
    \E q \in EmbedPathRequests : Begin(r, q, embed_begin(q.body))

embed_batch_path(r) ==
    \E q \in BatchPathRequests : Begin(r, q, embed_batch_begin(q.body))

\* The steps of the handler thread r.
Handle(r) ==
    \/ health(r)
    \/ embed_path(r)
    \/ embed_return(r)
    \/ embed_batch_path(r)
    \/ embed_batch_return(r)

PathNext ==
    \E r \in Slots :
        \/ Receive(r)
        \/ health(r)
        \/ embed_path(r)
        \/ embed_return(r)
        \/ embed_batch_path(r)
        \/ embed_batch_return(r)
        \/ Close(r)

\* The server on the requests of every handler path.  A handler thread that
\* has a connection runs to its response: every statement of a handler is
\* straight-line code and model.encode returns or raises.
FairSpec == Init /\ [][PathNext]_vars /\ \A r \in Slots : WF_vars(Handle(r))

(******************************** properties *******************************)

Done(r) == pc[r] = "done"
Called(r) == calls[r] > 0
ObjectBody(r, ep) == req[r].ep = ep /\ req[r].body.kind = "object"

\* The texts a request asks to embed: a single string counts as one text.
InputTexts(q) ==
    IF q.ep = "embed"
    THEN IF IsStr(q.body.text) THEN <<q.body.text>> ELSE q.body.text.l
    ELSE q.body.texts.l

\* C1: a POST /embed whose JSON object has no "text", or has an empty string
\* or an empty list as "text", is never passed to encode and is answered
\* 400 {"error": "Missing 'text' field"}.
C1_MissingTextIs400 ==
    \A r \in Slots :
        ( /\ ObjectBody(r, "embed")
          /\ req[r].body.text \in { Absent, Str(""), List(<<>>) } )
        => /\ pc[r] # "encoding"
           /\ calls[r] = 0
           /\ Done(r) => /\ Len(resp[r]) = 1
                         /\ resp[r][1].status = 400
                         /\ resp[r][1].keys = {"error"}
                         /\ resp[r][1].error = "Missing 'text' field"

C1_Witness ==
    \E r \in Slots :
        /\ Done(r)
        /\ ObjectBody(r, "embed")
        /\ req[r].body.text = Str("")
        /\ resp[r][1].status = 400

\* C2: a POST /embed/batch whose "texts" is missing, an empty list or not a
\* list is never passed to encode and is answered 400 with an "error" field.
C2_InvalidTextsIs400 ==
    \A r \in Slots :
        ( /\ ObjectBody(r, "batch")
          /\ \/ req[r].body.texts = Absent
             \/ req[r].body.texts = List(<<>>)
             \/ ~IsList(req[r].body.texts) )
        => /\ pc[r] # "encoding"
           /\ calls[r] = 0
           /\ Done(r) => /\ Len(resp[r]) = 1
                         /\ resp[r][1].status = 400
                         /\ "error" \in resp[r][1].keys

C2_Witness ==
    \E r \in Slots :
        /\ Done(r)
        /\ ObjectBody(r, "batch")
        /\ req[r].body.texts = Str("a")
        /\ resp[r][1].status = 400

\* C3: every 200 response of /embed and /embed/batch has count equal to the
\* number of input texts, as many embeddings as count, the i-th embedding
\* the vector of the i-th input text, and dimensions 1024.
C3_CountMatchesInputs ==
    \A r \in Slots :
        ( /\ Done(r)
          /\ req[r].ep \in {"embed", "batch"}
          /\ resp[r][1].status = 200 )
        => LET texts == InputTexts(req[r])
               body == resp[r][1]
           IN  /\ body.count = Len(texts)
               /\ Len(body.embeddings) = body.count
               /\ \A i \in 1..Len(texts) : body.embeddings[i].text = texts[i].s
               /\ body.dimensions = 1024

C3_Witness ==
    \E r, s \in Slots :
        /\ Done(r) /\ req[r].ep = "embed" /\ req[r].body.text = Str("a")
        /\ resp[r][1].status = 200 /\ resp[r][1].count = 1
        /\ Done(s) /\ req[s].ep = "batch"
        /\ resp[s][1].status = 200 /\ resp[s][1].count = 2

\* The client's input is malformed or missing: no JSON object as body, no
\* usable text/texts, or a batch_size that is not a positive integer.
ClientInputInvalid(q) ==
    \/ q.body.kind # "object"
    \/ /\ q.ep = "embed"
       /\ ~(IsStr(q.body.text) /\ q.body.text.s # "")
       /\ ~WellFormedTexts(q.body.text)
    \/ /\ q.ep = "batch"
       /\ \/ ~WellFormedTexts(q.body.texts)
          \/ ~WellFormedBatchSize(q.body.batch_size)

\* C4: malformed or missing client input is always answered 400, and 500 is
\* returned only when encode was invoked and failed, with its message.
C4_ErrorStatusByCause ==
    \A r \in Slots :
        (Done(r) /\ req[r].ep \in {"embed", "batch"})
        => /\ ClientInputInvalid(req[r]) => resp[r][1].status = 400
           /\ resp[r][1].status = 500 =>
                 /\ calls[r] = 1
                 /\ outcome[r] = "raised"
                 /\ resp[r][1].error = MsgEncode

\* C5: every call of encode gets a non-empty list of strings and, when
\* batch_size is passed, a positive integer.
C5_EncodeArgsWellFormed ==
    \A r \in Slots : Called(r) => WellFormedArgs(args[r])

\* The batch_size a request asks for is a positive integer or is absent.
ValidBatchRequest(q) ==
    /\ q.ep = "batch"
    /\ q.body.kind = "object"
    /\ WellFormedTexts(q.body.texts)
    /\ WellFormedBatchSize(q.body.batch_size)

\* C6: two valid /embed/batch requests with the same texts get the same
\* response whatever their positive batch_size (absent counts as 32), given
\* the same outcome of encode; batch_size is only forwarded to encode.
C6_BatchSizeDoesNotChangeResponse ==
    /\ \A r \in Slots :
          (Called(r) /\ ValidBatchRequest(req[r]))
          => /\ args[r].texts = req[r].body.texts
             /\ args[r].batch_size =
                   IF req[r].body.batch_size = Absent
                   THEN IntV(32) ELSE req[r].body.batch_size
    /\ \A r, s \in Slots :
          ( /\ Done(r) /\ Done(s)
            /\ ValidBatchRequest(req[r]) /\ ValidBatchRequest(req[s])
            /\ req[r].body.texts = req[s].body.texts
            /\ outcome[r] = outcome[s] )
          => resp[r] = resp[s]

C6_Witness ==
    \E r, s \in Slots :
        /\ Done(r) /\ Done(s)
        /\ ValidBatchRequest(req[r]) /\ ValidBatchRequest(req[s])
        /\ req[r].body.batch_size = IntV(1)
        /\ req[s].body.batch_size = Absent
        /\ resp[r][1].status = 200 /\ resp[s][1].status = 200
        /\ Len(resp[r][1].embeddings) = 2

\* C7: /embed hands encode the boolean "normalize" of the request, true when
\* the field is absent; /embed/batch hands it true for every request.  So
\* /embed with a list and normalize true returns the embeddings that
\* /embed/batch returns for the same list.
C7_NormalizeFlag ==
    /\ \A r \in Slots :
          Called(r) =>
             /\ (req[r].ep = "embed" /\ req[r].body.normalize = Absent)
                   => args[r].normalize = True
             /\ (req[r].ep = "embed" /\ req[r].body.normalize \in {True, False})
                   => args[r].normalize = req[r].body.normalize
             /\ req[r].ep = "batch" => args[r].normalize = True
    /\ \A r \in Slots :
          (Done(r) /\ req[r].ep \in {"embed", "batch"} /\ resp[r][1].status = 200)
          => \A i \in 1..Len(resp[r][1].embeddings) :
                resp[r][1].embeddings[i].unit =
                   (req[r].ep = "batch" \/ req[r].body.normalize # False)
    /\ \A r, s \in Slots :
          ( /\ Done(r) /\ Done(s)
            /\ ObjectBody(r, "embed") /\ ObjectBody(s, "batch")
            /\ IsList(req[r].body.text)
            /\ req[r].body.normalize \in {True, Absent}
            /\ req[s].body.texts = req[r].body.text
            /\ resp[r][1].status = 200 /\ resp[s][1].status = 200 )
          => resp[r][1].embeddings = resp[s][1].embeddings

C7_Witness ==
    \E r, s \in Slots :
        /\ Done(r) /\ ObjectBody(r, "embed")
        /\ IsList(req[r].body.text) /\ req[r].body.normalize = True
        /\ resp[r][1].status = 200
        /\ Done(s) /\ ObjectBody(s, "batch")
        /\ req[s].body.normalize = False
        /\ resp[s][1].status = 200
        /\ resp[s][1].embeddings[1].unit
        /\ req[s].body.texts = req[r].body.text

\* The response a request gets when it is the only one the server handles;
\* raised tells whether its call of encode, if any, fails.
HandleAlone(q, raised) ==
    IF q.ep = "health" THEN health_response
    ELSE IF q.ep = "embed"
    THEN LET b == embed_begin(q.body)
         IN  IF b.next = "respond" THEN b.resp
             ELSE embed_end(encode(b.args, raised))
    ELSE LET b == embed_batch_begin(q.body)
         IN  IF b.next = "respond" THEN b.resp
             ELSE embed_batch_end(encode(b.args, raised))

\* C8: whatever the interleaving, each request gets the response it gets
\* when handled alone, and the loaded model is never reassigned.
C8_RequestsIndependent ==
    /\ model = "BAAI/bge-large-en-v1.5"
    /\ \A r \in Slots :
          Done(r) => resp[r] = <<HandleAlone(req[r], outcome[r] = "raised")>>

C8_Witness ==
    \E r, s \in Slots :
        /\ r # s
        /\ Done(r) /\ resp[r][1].status = 200 /\ req[r].ep = "embed"
        /\ Done(s) /\ resp[s][1].status = 500 /\ outcome[s] = "raised"

\* C9: GET /health answers 200 with the fixed descriptor and never invokes
\* encode, whatever else is in flight or has failed.
C9_HealthFixed ==
    \A r \in Slots :
      /\ pc[r] = "received" => ENABLED health(r)
      /\ req[r].ep = "health" =>
            /\ calls[r] = 0
            /\ pc[r] # "encoding"
            /\ Done(r) =>
                  /\ Len(resp[r]) = 1
                  /\ resp[r][1].status = 200
                  /\ resp[r][1].keys = {"status", "model", "dimensions"}
                  /\ resp[r][1].st = "healthy"
                  /\ resp[r][1].model = "BGE-large-en-v1.5"
                  /\ resp[r][1].dimensions = 1024

C9_Witness ==
    \E r, s \in Slots :
        /\ Done(r) /\ req[r].ep = "health"
        /\ Done(s) /\ resp[s][1].status = 500 /\ outcome[s] = "raised"

\* A response is a full success or a bare error.
WholeResponse(q, body) ==
    \/ /\ body.status = 200
       /\ body.keys = {"embeddings", "dimensions", "count"}
       /\ Len(body.embeddings) = Len(InputTexts(q))
    \/ /\ body.status \in {400, 500}
       /\ body.keys = {"error"}
       /\ body.embeddings = <<>>

C10_Safe ==
    \A r \in Slots :
        /\ calls[r] <= 1
        /\ Len(resp[r]) <= 1
        /\ Len(resp[r]) = 1 <=> Done(r)
        /\ (Done(r) /\ req[r].ep \in {"embed", "batch"}) =>
              /\ WholeResponse(req[r], resp[r][1])
              /\ resp[r][1].status = 400 => calls[r] = 0
              /\ outcome[r] = "raised" => resp[r][1].status = 500

\* C10: a request invokes encode at most once, and not at all when validation
\* fails; it ends with exactly one response, which is either a 200 body with
\* an embedding for every input or a body with only an "error" field.
C10_NoRetryNoPartial ==
    /\ []C10_Safe
    /\ \A r \in Slots : (pc[r] = "received") ~> Done(r)

C10_Witness ==
    \E r, s \in Slots :
        /\ Done(r) /\ req[r].ep = "batch" /\ calls[r] = 1
        /\ outcome[r] = "raised" /\ resp[r][1].keys = {"error"}
        /\ Done(s) /\ req[s].ep = "embed" /\ calls[s] = 1
        /\ resp[s][1].status = 200 /\ Len(resp[s][1].embeddings) = 2

====
